---- MODULE Spec2Model ----
(***************************************************************************)
(* Model of src/src/sequence.rs: SequenceBuilder (default, push, build,    *)
(* concat, link), SequenceVal (iter, into_iter) and SequenceValIter        *)
(* (next).                                                                 *)
(*                                                                         *)
(* A Link<SequenceVal<T>> is a shared, interior-mutable cell.  The cells   *)
(* live in the arena `nodes`; a link slot holds the index of the cell it   *)
(* refers to, so two slots referring to the same cell hold the same index. *)
(* Option<T> is a sequence of length at most one: <<>> is None, <<x>> is   *)
(* Some(x).  A panic halts the program: no action is enabled after it.     *)
(***************************************************************************)
EXTENDS Integers, Sequences, FiniteSets, TLC

VARIABLES
    builder,    \* the SequenceBuilder under construction
    pushLog,    \* history: the lists handed to push, in call order
    snap,       \* the SequenceVals returned by build since the last push
    before,     \* history: the builder as it was when build was last called
    iter,       \* Option<SequenceValIter>: the live iterator
    iterSrc,    \* history: the sequence of the SequenceVal iter was made from
    out,        \* history: what the calls of next() on iter returned, in order
    nodes,      \* arena of the Link<SequenceVal> cells
    origin,     \* history: origin[k] tells which operation created nodes[k]
    call        \* the last call of build-from / concat / link and how it ended

vars == <<builder, pushLog, snap, before, iter, iterSrc, out, nodes, origin, call>>

---------------------------------------------------------------------------
(* Bounds *)

\* elements are 1..MaxElem
MaxElem == 2
\* longest sequence the builder is grown to
MaxLen == 3
\* number of push calls on the builder
MaxPushes == 3
\* number of values build keeps alive at once
MaxSnaps == 2
\* calls of next() made after the iterator is exhausted
MaxExtra == 2
\* number of cells in the arena
MaxNodes == 3

Elems == 1 .. MaxElem

\* all lists over Elems of length at most n
SeqsUpTo(n) == UNION {[1 .. k -> Elems] : k \in 0 .. n}

\* the element lists the segments of the link graph are built from
NodeInputs == {<<>>, <<1>>, <<2, 1>>}

---------------------------------------------------------------------------
(* Data model *)

\* Option::None of a link slot (a slot that refers to cell k holds k >= 1)
None == 0

\* no panic
NoPanic == ""

\* SequenceBuilder::default()
Default == [sequence |-> <<>>, prev |-> None, next |-> None]

\* Vec::extend(raw.clone()): every element of raw, in order, pushed on v
RECURSIVE Extend(_, _)
Extend(v, raw) ==
    IF raw = <<>> THEN v ELSE Extend(Append(v, Head(raw)), Tail(raw))

PushFront(b, raw) == [b EXCEPT !.sequence = raw \o @]

\* SequenceBuilder::push
Push(b, raw) == [b EXCEPT !.sequence = Extend(@, raw)]

BuildTake(b) ==
    [self |-> [b EXCEPT !.sequence = <<>>],
     val  |-> [sequence |-> b.sequence, prev |-> b.prev, next |-> b.next]]

\* SequenceBuilder::build: the value returned, and the builder after the call
Build(b) ==
    [self |-> b,
     val  |-> [sequence |-> b.sequence, prev |-> b.prev, next |-> b.next]]

\* SequenceVal::iter / into_iter
IterOf(v) == [owner |-> v, cursor |-> 0]

IterNextWrap(i) ==
    IF i.cursor < Len(i.owner.sequence)
    THEN [self |-> [i EXCEPT !.cursor = @ + 1],
          item |-> <<i.owner.sequence[i.cursor + 1]>>]
    ELSE [self |-> [i EXCEPT !.cursor = 0], item |-> <<>>]

\* SequenceValIter::next: the item returned, and the iterator after the call
IterNext(i) ==
    IF i.cursor < Len(i.owner.sequence)
    THEN [self |-> [i EXCEPT !.cursor = @ + 1],
          item |-> <<i.owner.sequence[i.cursor + 1]>>]
    ELSE [self |-> i, item |-> <<>>]

\* for x in v.clone().into_iter() { buf.push(x); }
RECURSIVE Drain(_, _)
Drain(i, buf) ==
    LET r == IterNext(i)
    IN  IF r.item = <<>> THEN buf ELSE Drain(r.self, Append(buf, r.item[1]))

---------------------------------------------------------------------------
(* concat and link.  h, t, f, s are indices of cells of the arena ns: the  *)
(* references handed to the call.  The result names the panic message      *)
(* (NoPanic when the call returns), the arena after the call, and for      *)
(* concat the buffer as it stood when the call ended and the Option of the *)
(* value returned.                                                         *)

NewVal(buf, head, tail) ==
    [sequence |-> buf, prev |-> head.prev, next |-> tail.next]

ConcatSwapped(ns, h, t) ==
    LET head == ns[h]
        tail == ns[t]
    IN  IF head.next # None
        THEN [panic |-> "head.tail is not None.", buf |-> <<>>,
              val |-> <<>>, nodes |-> ns]
        ELSE IF tail.prev # None
        THEN [panic |-> "tail.head is not None.", buf |-> <<>>,
              val |-> <<>>, nodes |-> ns]
        ELSE LET buf == Drain(IterOf(head), Drain(IterOf(tail), <<>>))
             IN  [panic |-> NoPanic, buf |-> buf,
                  val |-> <<NewVal(buf, head, tail)>>, nodes |-> ns]

ConcatLateCheck(ns, h, t) ==
    LET head == ns[h]
        tail == ns[t]
    IN  IF head.next # None
        THEN [panic |-> "head.tail is not None.", buf |-> <<>>,
              val |-> <<>>, nodes |-> ns]
        ELSE LET buf1 == Drain(IterOf(head), <<>>)
             IN  IF tail.prev # None
                 THEN [panic |-> "tail.head is not None.", buf |-> buf1,
                       val |-> <<>>, nodes |-> ns]
                 ELSE LET buf == Drain(IterOf(tail), buf1)
                      IN  [panic |-> NoPanic, buf |-> buf,
                           val |-> <<NewVal(buf, head, tail)>>, nodes |-> ns]

ConcatMoving(ns, h, t) ==
    LET head == ns[h]
        tail == ns[t]
    IN  IF head.next # None
        THEN [panic |-> "head.tail is not None.", buf |-> <<>>,
              val |-> <<>>, nodes |-> ns]
        ELSE IF tail.prev # None
        THEN [panic |-> "tail.head is not None.", buf |-> <<>>,
              val |-> <<>>, nodes |-> ns]
        ELSE LET buf == Drain(IterOf(tail), Drain(IterOf(head), <<>>))
             IN  [panic |-> NoPanic, buf |-> buf,
                  val |-> <<NewVal(buf, head, tail)>>,
                  nodes |-> [ns EXCEPT ![t].sequence = <<>>]]

\* SequenceBuilder::concat(head, tail)
ConcatCall(ns, h, t) ==
    LET head == ns[h]
        tail == ns[t]
    IN  IF head.next # None
        THEN [panic |-> "head.tail is not None.", buf |-> <<>>,
              val |-> <<>>, nodes |-> ns]
        ELSE IF tail.prev # None
        THEN [panic |-> "tail.head is not None.", buf |-> <<>>,
              val |-> <<>>, nodes |-> ns]
        ELSE LET buf == Drain(IterOf(tail), Drain(IterOf(head), <<>>))
             IN  [panic |-> NoPanic, buf |-> buf,
                  val |-> <<NewVal(buf, head, tail)>>, nodes |-> ns]

LinkEager(ns, f, s) ==
    IF ns[f].next # None
    THEN [panic |-> "first.next is not None.", nodes |-> ns]
    ELSE LET n1 == [ns EXCEPT ![f].next = s]
         IN  IF n1[s].prev # None
             THEN [panic |-> "second.prev is not None.", nodes |-> n1]
             ELSE [panic |-> NoPanic, nodes |-> [n1 EXCEPT ![s].prev = f]]

LinkOneWay(ns, f, s) ==
    IF ns[f].next # None
    THEN [panic |-> "first.next is not None.", nodes |-> ns]
    ELSE IF ns[s].prev # None
    THEN [panic |-> "second.prev is not None.", nodes |-> ns]
    ELSE [panic |-> NoPanic, nodes |-> [ns EXCEPT ![f].next = s]]

\* SequenceBuilder::link(first, second): the two assignments run in order,
\* each on the arena the previous one left (first and second may be one cell)
LinkCall(ns, f, s) ==
    IF ns[f].next # None
    THEN [panic |-> "first.next is not None.", nodes |-> ns]
    ELSE IF ns[s].prev # None
    THEN [panic |-> "second.prev is not None.", nodes |-> ns]
    ELSE LET n1 == [ns EXCEPT ![f].next = s]
         IN  [panic |-> NoPanic, nodes |-> [n1 EXCEPT ![s].prev = f]]

---------------------------------------------------------------------------
(* State machine *)

NoCall == [op |-> "none", a |-> 0, b |-> 0, panic |-> NoPanic, buf |-> <<>>]

Init ==
    /\ builder = Default
    /\ pushLog = <<>>
    /\ snap = <<>>
    /\ before = Default
    /\ iter = <<>>
    /\ iterSrc = <<>>
    /\ out = <<>>
    /\ nodes = <<>>
    /\ origin = <<>>
    /\ call = NoCall

graphVars == <<nodes, origin, call>>
builderVars == <<builder, pushLog, snap, before>>
iterVars == <<iter, iterSrc, out>>

\* b.push(&raw)
DoPush(raw) ==
    /\ Len(pushLog) < MaxPushes
    /\ Len(builder.sequence) + Len(raw) <= MaxLen
    /\ builder' = Push(builder, raw)
    /\ pushLog' = Append(pushLog, raw)
    /\ snap' = <<>>
    /\ before' = builder
    /\ UNCHANGED <<iterVars, graphVars>>

\* let v = b.build()
DoBuild ==
    /\ Len(snap) < MaxSnaps
    /\ LET r == Build(builder)
       IN  /\ builder' = r.self
           /\ snap' = Append(snap, r.val)
    /\ before' = builder
    /\ UNCHANGED <<pushLog, iterVars, graphVars>>

\* let it = v.iter(), v the value build returned last; v is moved into it
DoIter ==
    /\ snap # <<>>
    /\ iter' = <<IterOf(snap[Len(snap)])>>
    /\ iterSrc' = snap[Len(snap)].sequence
    /\ out' = <<>>
    /\ snap' = SubSeq(snap, 1, Len(snap) - 1)
    /\ UNCHANGED <<builder, pushLog, before, graphVars>>

\* it.next()
DoNext ==
    /\ iter # <<>>
    /\ Len(out) < Len(iterSrc) + MaxExtra
    /\ LET r == IterNext(iter[1])
       IN  /\ iter' = <<r.self>>
           /\ out' = Append(out, r.item)
    /\ UNCHANGED <<iterSrc, builderVars, graphVars>>

NextBuilder ==
    \/ \E raw \in SeqsUpTo(MaxLen) : DoPush(raw)
    \/ DoBuild
    \/ DoIter
    \/ DoNext

SpecBuilder == Init /\ [][NextBuilder]_vars

\* Rc::new(RefCell::new(b.build())) for a fresh builder b given one push
DoNewNode(raw) ==
    /\ call.panic = NoPanic
    /\ Len(nodes) < MaxNodes
    /\ nodes' = Append(nodes, Build(Push(Default, raw)).val)
    /\ origin' = Append(origin, "build")
    /\ call' = [op |-> "build", a |-> 0, b |-> 0, panic |-> NoPanic,
                buf |-> <<>>]
    /\ UNCHANGED <<builderVars, iterVars>>

\* Rc::new(RefCell::new(concat(&head.borrow(), &tail.borrow())))
DoConcat(h, t) ==
    /\ call.panic = NoPanic
    /\ LET r == ConcatCall(nodes, h, t)
       IN  /\ Len(r.nodes) + Len(r.val) <= MaxNodes
           /\ nodes' = r.nodes \o r.val
           /\ origin' = origin \o [k \in 1 .. Len(r.val) |-> "concat"]
           /\ call' = [op |-> "concat", a |-> h, b |-> t, panic |-> r.panic,
                       buf |-> r.buf]
    /\ UNCHANGED <<builderVars, iterVars>>

\* link(&first, &second)
DoLink(f, s) ==
    /\ call.panic = NoPanic
    /\ LET r == LinkCall(nodes, f, s)
       IN  /\ nodes' = r.nodes
           /\ call' = [op |-> "link", a |-> f, b |-> s, panic |-> r.panic,
                       buf |-> <<>>]
    /\ UNCHANGED <<origin, builderVars, iterVars>>

Next ==
    \/ \E raw \in NodeInputs : DoNewNode(raw)
    \/ \E h, t \in 1 .. Len(nodes) : DoConcat(h, t)
    \/ \E f, s \in 1 .. Len(nodes) : DoLink(f, s)

Spec == Init /\ [][Next]_vars

---------------------------------------------------------------------------
(* Properties of the builder and the iterator, checked under SpecBuilder *)

\* L1 ++ L2 ++ ... ++ Ln
RECURSIVE Flatten(_)
Flatten(log) ==
    IF log = <<>> THEN <<>> ELSE Head(log) \o Flatten(Tail(log))

\* C1: whatever lists were pushed on a default builder (empty ones included),
\* build() returns a value whose sequence is their concatenation in call
\* order, duplicates kept.
C1_BuildIsConcatenation ==
    \A k \in 1 .. Len(snap) : snap[k].sequence = Flatten(pushLog)

\* three pushes, one of them empty, with a repeated element, then build
C1_Witness ==
    /\ snap # <<>>
    /\ pushLog = <<<<1>>, <<>>, <<1, 2>>>>

\* C7: build() leaves the builder as it was, and the values two build() calls
\* return with no push in between have equal sequence, prev and next.
C7_BuildIsPure ==
    snap # <<>> =>
        /\ builder = before
        /\ \A j, k \in 1 .. Len(snap) : snap[j] = snap[k]

\* two builds of a builder holding two elements, no push in between
C7_Witness ==
    /\ Len(snap) = 2
    /\ Len(builder.sequence) >= 2

\* C6: the first n calls of next() return s[0], ..., s[n-1] in order, every
\* later call returns None, and the cursor never exceeds n.
C6_IterYieldsSequenceOnce ==
    iter # <<>> =>
        LET n == Len(iterSrc)
            c == iter[1].cursor
        IN  /\ c <= n
            /\ c = (IF Len(out) <= n THEN Len(out) ELSE n)
            /\ \A k \in 1 .. Len(out) :
                   out[k] = (IF k <= n THEN <<iterSrc[k]>> ELSE <<>>)

\* an iterator over two elements or more, called twice after its end
C6_Witness ==
    /\ iter # <<>>
    /\ Len(iterSrc) >= 2
    /\ Len(out) = Len(iterSrc) + 2

---------------------------------------------------------------------------
(* Properties of concat and link, checked under Spec.  In a step, call'    *)
(* names the call the step made, nodes the arena before it and nodes' the  *)
(* arena after it.                                                         *)

\* C2: concat(head, tail) with head.next = None and tail.prev = None returns
\* a new value whose sequence is head's own elements followed by tail's own
\* elements, whose prev is head.prev and whose next is tail.next.
C2_ConcatResult ==
    [][(/\ call'.op = "concat"
        /\ nodes[call'.a].next = None
        /\ nodes[call'.b].prev = None)
       => /\ call'.panic = NoPanic
          /\ Len(nodes') = Len(nodes) + 1
          /\ LET c == nodes'[Len(nodes')]
             IN  /\ c.sequence =
                        nodes[call'.a].sequence \o nodes[call'.b].sequence
                 /\ c.prev = nodes[call'.a].prev
                 /\ c.next = nodes[call'.b].next]_vars

\* a concat that returned, of two different non-empty segments, the head
\* linked from a predecessor and the tail linked to a successor
C2_Witness ==
    /\ call.op = "concat"
    /\ call.panic = NoPanic
    /\ call.a # call.b
    /\ nodes[call.a].sequence # <<>>
    /\ nodes[call.b].sequence # <<>>
    /\ nodes[call.a].sequence # nodes[call.b].sequence
    /\ nodes[call.a].prev # None
    /\ nodes[call.b].next # None

\* C3: link(first, second) with first.next = None and second.prev = None
\* ends with first.next referring to second and second.prev referring to
\* first, and leaves both sequences, first.prev and second.next unchanged.
C3_LinkEffect ==
    [][(/\ call'.op = "link"
        /\ nodes[call'.a].next = None
        /\ nodes[call'.b].prev = None)
       => /\ call'.panic = NoPanic
          /\ nodes'[call'.a].next = call'.b
          /\ nodes'[call'.b].prev = call'.a
          /\ nodes'[call'.a].sequence = nodes[call'.a].sequence
          /\ nodes'[call'.b].sequence = nodes[call'.b].sequence
          /\ nodes'[call'.a].prev = nodes[call'.a].prev
          /\ nodes'[call'.b].next = nodes[call'.b].next]_vars

\* C4: link(first, second) with first.next or second.prev occupied panics,
\* and no field of any node differs from its value before the call.
C4_LinkPanicMutatesNothing ==
    [][(/\ call'.op = "link"
        /\ \/ nodes[call'.a].next # None
           \/ nodes[call'.b].prev # None)
       => /\ call'.panic # NoPanic
          /\ nodes' = nodes]_vars

\* a link that panicked on its second check, first.next being free
C4_Witness ==
    /\ call.op = "link"
    /\ call.panic = "second.prev is not None."
    /\ nodes[call.a].next = None
    /\ nodes[call.b].prev # None

\* C5: concat(head, tail) with head.next or tail.prev occupied panics before
\* any element is copied and returns no value.
C5_ConcatPanicNoResult ==
    [][(/\ call'.op = "concat"
        /\ \/ nodes[call'.a].next # None
           \/ nodes[call'.b].prev # None)
       => /\ call'.panic # NoPanic
          /\ call'.buf = <<>>
          /\ nodes' = nodes]_vars

\* a concat that panicked on its second check, the head holding elements
C5_Witness ==
    /\ call.op = "concat"
    /\ call.panic = "tail.head is not None."
    /\ nodes[call.a].sequence # <<>>
    /\ nodes[call.a].next = None

\* C8: a concat that returns leaves head, tail and every other node as they
\* were.
C8_ConcatFrame ==
    [][(call'.op = "concat" /\ call'.panic = NoPanic)
       => \A k \in 1 .. Len(nodes) : nodes'[k] = nodes[k]]_vars

\* a concat that returned, its non-empty operands linked to neighbours
C8_Witness ==
    /\ call.op = "concat"
    /\ call.panic = NoPanic
    /\ nodes[call.b].sequence # <<>>
    /\ nodes[call.a].prev # None
    /\ nodes[call.b].next # None
    /\ nodes[nodes[call.a].prev].sequence # <<>>

\* following next from k never comes to a node already visited
RECURSIVE NoRevisit(_, _)
NoRevisit(k, seen) ==
    IF k = None THEN TRUE
    ELSE IF k \in seen THEN FALSE
    ELSE NoRevisit(nodes[k].next, seen \cup {k})

\* C9: after link calls that returned, on nodes that all started with
\* prev = None and next = None, following next from any node never reaches
\* a node already visited.
C9_LinearChains ==
    (\A k \in 1 .. Len(nodes) : origin[k] = "build")
        => \A k \in 1 .. Len(nodes) : NoRevisit(k, {})

\* C10 as stated: in every reachable state, x.next refers to y exactly when
\* y.prev refers to x.
C10_LinksSymmetric ==
    \A x, y \in 1 .. Len(nodes) :
        /\ nodes[x].next = y => nodes[y].prev = x
        /\ nodes[y].prev = x => nodes[x].next = y

\* C10 amended: a link slot of a segment that build created is answered by
\* the segment it refers to.
C10_BuiltLinksSymmetric ==
    \A x, y \in 1 .. Len(nodes) :
        /\ (origin[x] = "build" /\ nodes[x].next = y) => nodes[y].prev = x
        /\ (origin[y] = "build" /\ nodes[y].prev = x) => nodes[x].next = y

\* a concat result with an inherited prev that is not answered, beside a
\* built segment linked to a concat result
C10_Witness ==
    /\ \E c \in 1 .. Len(nodes) :
        /\ origin[c] = "concat"
        /\ nodes[c].prev # None
        /\ nodes[nodes[c].prev].next # c
    /\ \E x \in 1 .. Len(nodes) :
        /\ origin[x] = "build"
        /\ nodes[x].next # None
        /\ origin[nodes[x].next] = "concat"

====
